---- MODULE Spec2Model ----
(***************************************************************************)
(* Model of cart_helper: the product lookup with its 30 minute cache, the  *)
(* response validation, and the cart of the two front-ends (the egui       *)
(* DMHelper application in src/ui/dmhelper.rs and the command-line loop in *)
(* src/main.rs).  One run of the program is one of the two front-ends.     *)
(*                                                                         *)
(* Strings whose content the code inspects (identifiers, prices, image     *)
(* urls) are sequences of one-character strings; prices are counted in     *)
(* hundredths; the clock is counted in minutes.                            *)
(***************************************************************************)
EXTENDS Integers, Sequences, FiniteSets, TLC

\* ------------------------------------------------------------------ bounds
\* the clock is observed every TickStep minutes, up to MaxTime
MaxTime == 45
TickStep == 15
\* lookups (button clicks / loop iterations that reach fetch_product_info) in
\* the run that is explored
MaxLookups == 2

\* ------------------------------------------------- program constants
\* Duration::minutes(30)
TTL == 30

\* ------------------------------------------------------------------ strings
Whitespace == {" ", "\t", "\n"}

LowerChar(c) ==
    CASE c = "A" -> "a"
      [] c = "E" -> "e"
      [] c = "N" -> "n"
      [] c = "D" -> "d"
      [] OTHER -> c

\* str::to_lowercase
ToLowercase(s) == [i \in 1..Len(s) |-> LowerChar(s[i])]

RECURSIVE TrimStart(_)
TrimStart(s) ==
    IF s # <<>> /\ Head(s) \in Whitespace THEN TrimStart(Tail(s)) ELSE s

RECURSIVE TrimEnd(_)
TrimEnd(s) ==
    IF s # <<>> /\ s[Len(s)] \in Whitespace
    THEN TrimEnd(SubSeq(s, 1, Len(s) - 1))
    ELSE s

\* str::trim
Trim(s) == TrimEnd(TrimStart(s))

DigitChar(d) ==
    CASE d = 0 -> "0" [] d = 1 -> "1" [] d = 2 -> "2" [] d = 3 -> "3"
      [] d = 4 -> "4" [] d = 5 -> "5" [] d = 6 -> "6" [] d = 7 -> "7"
      [] d = 8 -> "8" [] d = 9 -> "9"

Digits == {"0", "1", "2", "3", "4", "5", "6", "7", "8", "9"}

DigitVal(c) == CHOOSE d \in 0..9 : DigitChar(d) = c

\* serde_json::Number::to_string of a non-negative integer
RECURSIVE NumToString(_)
NumToString(n) ==
    IF n < 10 THEN <<DigitChar(n)>>
    ELSE Append(NumToString(n \div 10), DigitChar(n % 10))

RECURSIVE RemoveQuotes(_)
RemoveQuotes(s) ==
    IF s = <<>> THEN <<>>
    ELSE IF Head(s) = "\"" THEN RemoveQuotes(Tail(s))
    ELSE <<Head(s)>> \o RemoveQuotes(Tail(s))

\* ----------------------------------------------------- the catalog's answers
\* What the catalog may answer is not under the program's control: any of the
\* payloads below may come back for any identifier.
Name == "Nivea Creme"
Name2 == "Nivea Soft"
P299 == <<"2", ".", "9", "9">>
P150 == <<"1", ".", "5", "0">>
PNa == <<"N", "/", "A">>
\* image urls: one that downloads, one that parses but does not download
GoodSrc == <<"h", ":", "y">>
DeadSrc == <<"h", ":", "z">>
\* one entry of the images array: with a src string, or without one
Img(src) == [has_src |-> TRUE, src |-> src]
ImgNoSrc == [has_src |-> FALSE, src |-> <<>>]

\* A well-formed product payload:
\* { gtin: g, title: { headline: h }, price: { price: p }, images: imgs }
GoodPayload(g, h, p, imgs) ==
    [top |-> "object", extra |-> FALSE,
     gtin_t |-> "number", gtin_n |-> g,
     title_t |-> "object", headline_t |-> "string", headline |-> h,
     price_t |-> "object", price_price_t |-> "string", price_price |-> p,
     images_t |-> "array", images |-> imgs]

BasePayload == GoodPayload(7, Name, P299, <<Img(GoodSrc)>>)

\* the well-formed payloads the catalog is let to answer with
GoodPayloads ==
    { BasePayload,
      GoodPayload(7, Name2, PNa, <<Img(DeadSrc)>>),
      GoodPayload(12, Name, P150, <<ImgNoSrc>>),
      GoodPayload(12, Name, P150, <<>>),
      GoodPayload(7, Name2, PNa, <<>>) }

\* {} : an object with no key at all
EmptyObject ==
    [BasePayload EXCEPT !.gtin_t = "missing", !.title_t = "missing",
                        !.headline_t = "missing", !.price_t = "missing",
                        !.price_price_t = "missing", !.images_t = "missing",
                        !.images = <<>>]

\* payloads the validation has to reject
BadPayloads ==
    { [BasePayload EXCEPT !.top = "array"],
      [BasePayload EXCEPT !.top = "string"],
      EmptyObject,
      [EmptyObject EXCEPT !.extra = TRUE],
      [BasePayload EXCEPT !.gtin_t = "string"],
      [BasePayload EXCEPT !.gtin_t = "missing"],
      [BasePayload EXCEPT !.title_t = "missing", !.headline_t = "missing"],
      [BasePayload EXCEPT !.headline_t = "missing"],
      [BasePayload EXCEPT !.headline_t = "number"],
      [BasePayload EXCEPT !.price_t = "missing", !.price_price_t = "missing"],
      [BasePayload EXCEPT !.price_price_t = "missing"],
      [BasePayload EXCEPT !.price_price_t = "number"],
      [BasePayload EXCEPT !.images_t = "missing", !.images = <<>>],
      [BasePayload EXCEPT !.images_t = "string", !.images = <<>>] }

Payloads == GoodPayloads \cup BadPayloads

\* reqwest::blocking::get(&url)?.json()? : a transport failure (or a body that is
\* no JSON), or a JSON value
TransportError == [transport_ok |-> FALSE, body |-> EmptyObject]

Responses == {TransportError}
             \cup {[transport_ok |-> TRUE, body |-> p] : p \in Payloads}

\* --------------------------------------------------------------- validation
NoApi == [gtin |-> <<>>, headline |-> "", price |-> <<>>, images |-> <<>>]

\* map.is_empty()
IsEmptyMap(v) ==
    /\ ~v.extra
    /\ v.gtin_t = "missing" /\ v.title_t = "missing"
    /\ v.price_t = "missing" /\ v.images_t = "missing"

\* a wrong variant: a string-typed gtin is accepted too
DeserializeEanLenient(v) == v.gtin_t \in {"number", "string"}

\* deserialize_ean: only Value::Number is accepted
DeserializeEanOk(v) == v.gtin_t = "number"

DeserializeEan(v) == NumToString(v.gtin_n)

\* item["src"].to_string(): a JSON string is printed with its quotes, a missing
\* key indexes to null
JsonSrcToString(item) ==
    IF item.has_src THEN <<"\"">> \o item.src \o <<"\"">>
    ELSE <<"n", "u", "l", "l">>

\* deserialize_image: only Value::Array is accepted
DeserializeImageOk(v) == v.images_t = "array"

DeserializeImage(v) ==
    [i \in 1..Len(v.images) |-> RemoveQuotes(JsonSrcToString(v.images[i]))]

\* #[derive(Deserialize)] ApiResponse: every declared field must be there, with
\* its type; the command-line ApiResponse declares no images field
FieldsOk(fe, v) ==
    /\ DeserializeEanOk(v)
    /\ v.title_t = "object" /\ v.headline_t = "string"
    /\ v.price_t = "object" /\ v.price_price_t = "string"
    /\ (fe = "gui" => DeserializeImageOk(v))

\* impl TryFrom<Value> for ApiResponse
TryFromValue(fe, v) ==
    IF v.top # "object"
    THEN [ok |-> FALSE, err |-> "Unexpected API response type", api |-> NoApi]
    ELSE IF IsEmptyMap(v)
    THEN [ok |-> FALSE, err |-> "API response is an empty object", api |-> NoApi]
    ELSE IF ~FieldsOk(fe, v)
    THEN [ok |-> FALSE, err |-> "Nie znaleziono produktu", api |-> NoApi]
    ELSE [ok |-> TRUE, err |-> "",
          api |-> [gtin |-> DeserializeEan(v), headline |-> v.headline,
                   price |-> v.price_price,
                   images |-> IF fe = "gui" THEN DeserializeImage(v) ELSE <<>>]]

\* ------------------------------------------------------------------- prices
RECURSIVE DigitsToNat(_)
DigitsToNat(s) ==
    IF s = <<>> THEN 0
    ELSE DigitsToNat(SubSeq(s, 1, Len(s) - 1)) * 10 + DigitVal(s[Len(s)])

DotPositions(s) == {i \in 1..Len(s) : s[i] = "."}

\* the decimal strings str::parse::<f32> accepts: digits with at most one point
IsDecimal(s) ==
    /\ \A i \in 1..Len(s) : s[i] \in Digits \cup {"."}
    /\ Cardinality(DotPositions(s)) <= 1
    /\ \E i \in 1..Len(s) : s[i] \in Digits

\* its value in hundredths (the prices of the catalog carry two decimals)
DecimalValue(s) ==
    IF DotPositions(s) = {} THEN DigitsToNat(s) * 100
    ELSE LET d == CHOOSE i \in DotPositions(s) : TRUE
             frac == SubSeq(s, d + 1, Len(s))
             two == SubSeq(frac \o <<"0", "0">>, 1, 2)
         IN  DigitsToNat(SubSeq(s, 1, d - 1)) * 100 + DigitsToNat(two)

\* api_response.price.price.parse().unwrap_or(0.0)
ParsePrice(s) == IF IsDecimal(s) THEN DecimalValue(s) ELSE 0

\* ------------------------------------------------------------------ product
\* Url::parse: a url needs a scheme
UrlParses(url) == \E i \in 1..Len(url) : url[i] = ":"

\* reqwest::blocking::get(url) and the decoding of what it returns
Downloads(url) == url = GoodSrc

\* download_image(url): Ok only if the url parses and the download works
DownloadImage(url) == UrlParses(url) /\ Downloads(url)

NoProduct ==
    [ean |-> <<>>, name |-> "", price |-> 0, quantity |-> 0, image |-> FALSE]

\* impl From<ApiResponse> for Product (dmhelper.rs): api_response.images[0]
\* is out of bounds, a panic, when the list is empty
GuiProductPanics(api) == api.images = <<>>

GuiProductFrom(api) ==
    [ean |-> api.gtin, name |-> api.headline, price |-> ParsePrice(api.price),
     quantity |-> 0, image |-> DownloadImage(api.images[1])]

\* impl From<ApiResponse> for Product (main.rs): no image
CliProductFrom(api) ==
    [ean |-> api.gtin, name |-> api.headline, price |-> ParsePrice(api.price),
     quantity |-> 0, image |-> FALSE]

\* -------------------------------------------------------------------- cache
\* a wrong variant: the new entry takes the place of the whole map
InsertAlone(cache, key, item) == [k \in {key} |-> item]

\* HashMap::insert
Insert(cache, key, item) ==
    [k \in (DOMAIN cache) \cup {key} |-> IF k = key THEN item ELSE cache[k]]

\* a wrong variant: an entry still served at the instant it expires
FreshInclusive(item, t) == item.expires_at >= t

\* cached_item.expires_at > now
Fresh(item, t) == item.expires_at > t

\* a wrong variant: Duration::seconds(30), which is no whole minute
ExpiresAtSeconds(t) == t + (TTL \div 60)

\* now + Duration::minutes(30)
ExpiresAt(t) == t + TTL

\* a wrong variant: a failed fetch drops the entry it could not refresh
FetchFailedEvicts(key, cache, t) ==
    [kind |-> "err", product |-> NoProduct,
     cache |-> [k \in (DOMAIN cache) \ {key} |-> cache[k]]]

\* the `?` returns and the Err arm of fetch_product_info for key at time t:
\* Err(...), the cache as it was
FetchFailed(key, cache, t) ==
    [kind |-> "err", product |-> NoProduct, cache |-> cache]

\* the Ok arm: the product is stored under the key that was looked up
FetchStored(key, cache, t, p) ==
    [kind |-> "ok", product |-> p,
     cache |-> Insert(cache, key, [product |-> p, expires_at |-> ExpiresAt(t)])]

\* fetch_product_info(ean, cache) at time t, when the catalog would answer
\* resp.  kind is "hit" (served from
\* the cache, no request), "ok" (fetched and stored), "err" or "panic".
FetchProductInfo(fe, key, cache, t, resp) ==
    IF key \in DOMAIN cache /\ Fresh(cache[key], t)
    THEN [kind |-> "hit", product |-> cache[key].product, cache |-> cache]
    ELSE IF ~resp.transport_ok
    THEN FetchFailed(key, cache, t)
    ELSE LET r == TryFromValue(fe, resp.body) IN
         IF ~r.ok THEN FetchFailed(key, cache, t)
         ELSE IF fe = "gui" /\ GuiProductPanics(r.api)
         THEN [kind |-> "panic", product |-> NoProduct, cache |-> cache]
         ELSE FetchStored(key, cache, t,
                          IF fe = "gui" THEN GuiProductFrom(r.api)
                          ELSE CliProductFrom(r.api))

\* --------------------------------------------------------------------- cart
\* quantity: i32
I32Max == 2147483647
I32Min == (0 - I32Max) - 1

\* i32 addition as the release build computes it: it wraps around
I32Add(a, b) ==
    IF b > 0 /\ a > I32Max - b THEN ((a - I32Max) - 1) + ((b - I32Max) - 1)
    ELSE IF b < 0 /\ a < I32Min - b THEN ((a + I32Max) + 1) + ((b + I32Max) + 1)
    ELSE a + b

\* self.cart.iter().position(|item| item.ean == product.ean)
Position(c, ean) ==
    IF \E i \in 1..Len(c) : c[i].ean = ean
    THEN CHOOSE i \in 1..Len(c) :
            c[i].ean = ean /\ \A j \in 1..(i - 1) : c[j].ean # ean
    ELSE 0

\* a wrong variant: every add pushes a line
AddOrMergePush(c, p) == Append(c, p)

\* a wrong variant: a merge takes over the record that was just looked up
AddOrMergeRefresh(c, p) ==
    IF Position(c, p.ean) # 0
    THEN [c EXCEPT ![Position(c, p.ean)] =
                [p EXCEPT !.quantity = I32Add(c[Position(c, p.ean)].quantity,
                                              p.quantity)]]
    ELSE Append(c, p)

\* a wrong variant: a merge moves the line to the end of the cart
AddOrMergeMoveLast(c, p) ==
    IF Position(c, p.ean) # 0
    THEN Append(SubSeq(c, 1, Position(c, p.ean) - 1)
                  \o SubSeq(c, Position(c, p.ean) + 1, Len(c)),
                [c[Position(c, p.ean)] EXCEPT
                    !.quantity = I32Add(@, p.quantity)])
    ELSE Append(c, p)

\* the body of "Dodaj do koszyka" once the quantity is not 0
AddOrMerge(c, p) ==
    IF Position(c, p.ean) # 0
    THEN [c EXCEPT ![Position(c, p.ean)].quantity = I32Add(@, p.quantity)]
    ELSE Append(c, p)

\* a wrong variant: the lines of the cart follow the record that a fetch stores
LookupCartLive(c, r) ==
    [i \in 1..Len(c) |->
        IF r.kind = "ok" /\ c[i].ean = r.product.ean
        THEN [r.product EXCEPT !.quantity = c[i].quantity]
        ELSE c[i]]

\* a wrong variant: a lookup that fails starts the cart afresh
LookupCartReset(c, r) == IF r.kind = "err" THEN <<>> ELSE c

\* the cart after a lookup that ended as r: fetch_product_info is handed the
\* identifier and the cache, and what it returns is a clone; the lines of the
\* cart are values of their own
LookupCart(c, r) == c

\* a wrong variant: no guard on a quantity of 0
AddClickedNoGuard(c, p) ==
    [cart |-> AddOrMerge(c, p), product |-> [some |-> FALSE, p |-> NoProduct]]

\* "Dodaj do koszyka" clicked with p pending: a quantity of 0 returns at once
AddClicked(c, p) ==
    IF p.quantity = 0
    THEN [cart |-> c, product |-> [some |-> TRUE, p |-> p]]
    ELSE [cart |-> AddOrMerge(c, p), product |-> [some |-> FALSE, p |-> NoProduct]]

\* ------------------------------------------------------------------- totals
\* the width of the significand of an f32
F32Precision == 16777216

\* the spacing of the f32 values around n
RECURSIVE F32Spacing(_, _)
F32Spacing(n, step) ==
    IF n \div step <= F32Precision THEN step ELSE F32Spacing(n, step * 2)

\* n rounded to a multiple of step, a tie going to the even multiple
RoundTiesEven(n, step) ==
    LET q == n \div step
        r == n % step
    IN  IF 2 * r < step \/ (2 * r = step /\ q % 2 = 0) THEN q * step
        ELSE (q + 1) * step

\* item.quantity as f32: exact up to 2^24 in magnitude, rounded beyond
AsF32(q) ==
    IF q = I32Min THEN q
    ELSE IF q < 0 THEN 0 - RoundTiesEven(0 - q, F32Spacing(0 - q, 1))
    ELSE RoundTiesEven(q, F32Spacing(q, 1))

\* a wrong variant: the sum of the unit prices, whatever the quantities
RECURSIVE TotalPriceOfUnits(_)
TotalPriceOfUnits(c) ==
    IF c = <<>> THEN 0
    ELSE TotalPriceOfUnits(SubSeq(c, 1, Len(c) - 1)) + c[Len(c)].price

\* cart.iter().map(|item| item.price * item.quantity as f32).sum(), in
\* hundredths
RECURSIVE TotalPrice(_)
TotalPrice(c) ==
    IF c = <<>> THEN 0
    ELSE TotalPrice(SubSeq(c, 1, Len(c) - 1))
           + c[Len(c)].price * AsF32(c[Len(c)].quantity)

\* total_price * exchange_rate, the rate in hundredths as well
TotalPln(total, rate) == total * rate

\* let exchange_rate: f32 = 4.34 (main.rs)
ExchangeRate == 434

\* ------------------------------------------------------------------- inputs
\* what the operator types into the identifier field / at the EAN prompt
RawEans == {<<"7">>, <<" ", "7", "\n">>, <<"A">>, <<"a">>}
EndLines == {<<"E", "N", "D", "\n">>, <<"e", "n", "d">>}
\* the values the quantity DragValue is set to
QtyInputs == {-1, 0, 2, 3}
\* the lines typed at the quantity prompt
QtyLines == {<<"3", "\n">>, <<"2">>, <<"0", "\n">>, <<"-", "1", "\n">>, <<"x", "\n">>}

\* the values the exchange rate DragValue is set to
RateInputs == {434}

\* str::parse::<i32>: an optional sign and digits
ParseI32Ok(s) ==
    LET body == IF s # <<>> /\ s[1] \in {"-", "+"} THEN Tail(s) ELSE s
    IN  body # <<>> /\ \A i \in 1..Len(body) : body[i] \in Digits

ParseI32(s) ==
    IF s[1] = "-" THEN 0 - DigitsToNat(Tail(s))
    ELSE IF s[1] = "+" THEN DigitsToNat(Tail(s))
    ELSE DigitsToNat(s)

\* -------------------------------------------------------------------- state
VARIABLES
    frontend,      \* "gui" (DMHelper) or "cli" (main.rs): which program runs
    status,        \* "running", "panicked", or "done" (the loop was left)
    now,           \* Utc::now(), in minutes
    cached_items,  \* HashMap<String, CachedItem>
    cart,          \* Vec<Product>
    product,       \* DMHelper.product : Option<Product>
    log,           \* history: the calls of fetch_product_info so far, each
                   \* with its key, its time and how it ended
    probe,         \* SpecFetch, SpecCart: the identifier and the answer under
                   \* test, and the length of the history the run starts with
    euro_exchange_rate,  \* DMHelper.euro_exchange_rate / exchange_rate of main
    total_price,   \* the sum last shown, in hundredths
    total_pln      \* the sum in the second currency last shown

vars == <<frontend, status, now, cached_items, cart, product, log, probe,
          euro_exchange_rate, total_price, total_pln>>

None == [some |-> FALSE, p |-> NoProduct]
Some(p) == [some |-> TRUE, p |-> p]

EmptyCache == [k \in {} |-> 0]

NoProbe == [raw |-> <<>>, resp |-> TransportError, base |-> 0]

\* the sums a frame of the GUI shows once its handlers have run
ShowTotals ==
    /\ total_price' = TotalPrice(cart')
    /\ total_pln' = TotalPln(total_price', euro_exchange_rate')

\* the rate and the sums of a front-end that holds cart c: DMHelper::new()
\* starts with a rate of 0.0 and shows the sums in every frame, main() has its
\* constant and computes the sums after the loop
InitTotals(c) ==
    /\ euro_exchange_rate = IF frontend = "gui" THEN 0 ELSE ExchangeRate
    /\ total_price = IF frontend = "gui" THEN TotalPrice(c) ELSE 0
    /\ total_pln = 0

\* DMHelper::new() / the locals of main()
Init ==
    /\ frontend \in {"gui", "cli"}
    /\ status = "running"
    /\ now = 0
    /\ cached_items = EmptyCache
    /\ cart = <<>>
    /\ product = None
    /\ log = <<>>
    /\ probe = NoProbe
    /\ InitTotals(<<>>)

\* the history entry of a call that ended as r
Logged(key, r) == [key |-> key, at |-> now, kind |-> r.kind]

\* time passes
Tick ==
    /\ status = "running"
    /\ now + TickStep <= MaxTime
    /\ now' = now + TickStep
    /\ UNCHANGED <<frontend, status, cached_items, cart, product, log, probe,
                   euro_exchange_rate, total_price, total_pln>>

\* the key the GUI looks up: self.ean.trim()
GuiKey(raw) == Trim(raw)

\* the key the command line looks up: ean.trim().to_lowercase()
CliKey(raw) == ToLowercase(Trim(raw))

\* "Pobierz informacje o produkcie" clicked with raw in the identifier field
GuiLookup(raw, resp) ==
    /\ frontend = "gui" /\ status = "running"
    /\ Len(log) < probe.base + MaxLookups
    /\ LET r == FetchProductInfo("gui", GuiKey(raw), cached_items, now, resp)
       IN  /\ cached_items' = r.cache
           /\ product' = IF r.kind \in {"hit", "ok"} THEN Some(r.product) ELSE product
           /\ status' = IF r.kind = "panic" THEN "panicked" ELSE status
           /\ log' = Append(log, Logged(GuiKey(raw), r))
           /\ cart' = LookupCart(cart, r)
    /\ UNCHANGED <<frontend, now, probe, euro_exchange_rate>>
    /\ ShowTotals

\* a wrong variant: the pending product is the cached one itself, not a clone,
\* so the quantity is written into the cache as well
GuiSetQuantityShared(q) ==
    /\ frontend = "gui" /\ status = "running"
    /\ product.some
    /\ product' = Some([product.p EXCEPT !.quantity = q])
    /\ cached_items' =
          [k \in DOMAIN cached_items |->
              IF cached_items[k].product.ean = product.p.ean
              THEN [cached_items[k] EXCEPT !.product.quantity = q]
              ELSE cached_items[k]]
    /\ UNCHANGED <<frontend, status, now, cart, log, probe, euro_exchange_rate>>
    /\ ShowTotals

\* the quantity DragValue of the pending product is dragged to q
GuiSetQuantity(q) ==
    /\ frontend = "gui" /\ status = "running"
    /\ product.some
    /\ product' = Some([product.p EXCEPT !.quantity = q])
    /\ UNCHANGED <<frontend, status, now, cached_items, cart, log, probe,
                   euro_exchange_rate>>
    /\ ShowTotals

\* the exchange rate DragValue is dragged to rate
GuiSetRate(rate) ==
    /\ frontend = "gui" /\ status = "running"
    /\ euro_exchange_rate' = rate
    /\ UNCHANGED <<frontend, status, now, cached_items, cart, product, log, probe>>
    /\ ShowTotals

\* "Dodaj do koszyka" clicked
GuiAddToCart ==
    /\ frontend = "gui" /\ status = "running"
    /\ product.some
    /\ cart' = AddClicked(cart, product.p).cart
    /\ product' = AddClicked(cart, product.p).product
    /\ UNCHANGED <<frontend, status, now, cached_items, log, probe,
                   euro_exchange_rate>>
    /\ ShowTotals

\* one iteration of the loop of main(): the EAN line, the lookup, and on success
\* the quantity line (read only then) and the push
CliIteration(raw, resp) ==
    /\ frontend = "cli" /\ status = "running"
    /\ Len(log) < probe.base + MaxLookups
    /\ LET r == FetchProductInfo("cli", CliKey(raw), cached_items, now, resp)
       IN  /\ cached_items' = r.cache
           /\ log' = Append(log, Logged(CliKey(raw), r))
           /\ IF r.kind \in {"hit", "ok"}
              THEN \E qline \in QtyLines :
                     IF ParseI32Ok(Trim(qline))
                     THEN /\ cart' = Append(LookupCart(cart, r),
                                           [r.product EXCEPT
                                              !.quantity = ParseI32(Trim(qline))])
                          /\ status' = status
                     ELSE /\ status' = "panicked"
                          /\ cart' = LookupCart(cart, r)
              ELSE /\ cart' = LookupCart(cart, r)
                   /\ status' = status
    /\ UNCHANGED <<frontend, now, product, probe,
                   euro_exchange_rate, total_price, total_pln>>

\* "end" typed at the EAN prompt: the loop is left and the sums are computed
\* and printed
CliEnd(raw) ==
    /\ frontend = "cli" /\ status = "running"
    /\ Trim(ToLowercase(raw)) = <<"e", "n", "d">>
    /\ status' = "done"
    /\ UNCHANGED <<frontend, now, cached_items, cart, product, log, probe,
                   euro_exchange_rate>>
    /\ ShowTotals

\* the answers a run of the whole front-end is let to meet: every well-formed
\* payload, and of the rejected ones, which all end in the same Err, the
\* transport failure, the empty object and the string-typed gtin (SpecFetch
\* goes through all of Responses)
RunResponses ==
    {TransportError}
    \cup {[transport_ok |-> TRUE, body |-> p] :
            p \in GoodPayloads
                   \cup {EmptyObject, [BasePayload EXCEPT !.gtin_t = "string"]}}

\* the answers worth telling apart for a lookup of key: a fresh entry is served
\* without a request, so it meets no answer at all
AnswersFor(key) ==
    IF key \in DOMAIN cached_items /\ Fresh(cached_items[key], now)
    THEN {TransportError}
    ELSE RunResponses

\* The exchange rate DragValue feeds nothing but the second sum that is
\* shown; Spec leaves the rate as the program starts with it, SpecCart drags it.
Next ==
    \/ Tick
    \/ \E raw \in RawEans : \E resp \in AnswersFor(GuiKey(raw)) : GuiLookup(raw, resp)
    \/ \E q \in QtyInputs : GuiSetQuantity(q)
    \/ GuiAddToCart
    \/ \E raw \in RawEans : \E resp \in AnswersFor(CliKey(raw)) : CliIteration(raw, resp)
    \/ \E raw \in EndLines : CliEnd(raw)

Spec == Init /\ [][Next]_vars

\* ------------------------------------------------ the lookup on given inputs
\* fetch_product_info is a function of the front-end, the key, the cache, the
\* clock and the catalog's answer.  SpecFetch draws them, and applies the
\* lookup handlers to them: from a cold start, or after one successful lookup
\* of "7" at time 0.
ClockValues == {t \in 0..MaxTime : t % TickStep = 0}

WarmFetch(fe) ==
    FetchProductInfo(fe, <<"7">>, EmptyCache, 0,
                     [transport_ok |-> TRUE, body |-> BasePayload])

InitFetch ==
    /\ frontend \in {"gui", "cli"}
    /\ status = "running"
    /\ now \in ClockValues
    /\ \/ /\ cached_items = EmptyCache
          /\ log = <<>>
          /\ cart = <<>>
          /\ product = None
       \/ /\ cached_items = WarmFetch(frontend).cache
          /\ log = <<[key |-> <<"7">>, at |-> 0, kind |-> "ok"]>>
          /\ IF frontend = "gui"
             THEN cart = <<>> /\ product = Some(WarmFetch(frontend).product)
             ELSE /\ cart = <<[WarmFetch(frontend).product EXCEPT !.quantity = 2]>>
                  /\ product = None
    /\ probe \in [raw : RawEans, resp : Responses, base : {Len(log)}]
    /\ InitTotals(cart)

NextFetch ==
    \/ GuiLookup(probe.raw, probe.resp)
    \/ CliIteration(probe.raw, probe.resp)

SpecFetch == InitFetch /\ [][NextFetch]_vars

\* the calls made on the probe
ProbeCalls == (probe.base + 1)..Len(log)

\* ------------------------------------------------- the cart with two lines
\* SpecCart starts where lookups at time 0, of "7" alone or of "7" and of "a",
\* each followed by an add (of 2 and of 3), have left the program, and lets
\* the front-end run on with one more identifier and answer.
SecondPayload == GoodPayload(12, Name, P150, <<ImgNoSrc>>)

WarmSecond(fe) ==
    FetchProductInfo(fe, <<"a">>, WarmFetch(fe).cache, 0,
                     [transport_ok |-> TRUE, body |-> SecondPayload])

WarmCart(fe) ==
    <<[WarmFetch(fe).product EXCEPT !.quantity = 2],
      [WarmSecond(fe).product EXCEPT !.quantity = 3]>>

InitCart ==
    /\ frontend \in {"gui", "cli"}
    /\ status = "running"
    /\ now = 0
    /\ product = None
    /\ \/ /\ cached_items = WarmFetch(frontend).cache
          /\ cart = SubSeq(WarmCart(frontend), 1, 1)
          /\ log = <<[key |-> <<"7">>, at |-> 0, kind |-> "ok"]>>
       \/ /\ cached_items = WarmSecond(frontend).cache
          /\ cart = WarmCart(frontend)
          /\ log = <<[key |-> <<"7">>, at |-> 0, kind |-> "ok"],
                     [key |-> <<"a">>, at |-> 0, kind |-> "ok"]>>
    /\ probe \in [raw : RawEans, resp : Responses, base : {Len(log)}]
    /\ InitTotals(cart)

NextCart ==
    \/ Tick
    \/ GuiLookup(probe.raw, probe.resp)
    \/ \E q \in QtyInputs : GuiSetQuantity(q)
    \/ \E rate \in RateInputs : GuiSetRate(rate)
    \/ GuiAddToCart
    \/ CliIteration(probe.raw, probe.resp)
    \/ \E raw \in EndLines : CliEnd(raw)

SpecCart == InitCart /\ [][NextCart]_vars

\* ===================================================================== claims
LogIdx == 1..Len(log)

\* call i stored the entry that call j of the same key finds
StoredFor(i, j) ==
    /\ i < j
    /\ log[i].key = log[j].key
    /\ log[i].kind = "ok"
    /\ \A m \in (i + 1)..(j - 1) : ~(log[m].key = log[j].key /\ log[m].kind = "ok")

\* C1 as claimed: an entry stored at t is served for t <= now <= t + 30 min and
\* is a miss for now > t + 30 min.
C1_ClosedWindow ==
    \A i \in LogIdx, j \in LogIdx :
        StoredFor(i, j) =>
            /\ log[j].at <= log[i].at + TTL => log[j].kind = "hit"
            /\ log[j].at > log[i].at + TTL => log[j].kind # "hit"

\* C1 amended: an entry stored at t is served from the cache for every lookup at
\* t <= now < t + 30 min, and every lookup at now >= t + 30 min is a miss that
\* sends a request.
C1_HalfOpenWindow ==
    \A i \in LogIdx, j \in LogIdx :
        StoredFor(i, j) =>
            /\ log[j].at < log[i].at + TTL => log[j].kind = "hit"
            /\ log[j].at >= log[i].at + TTL => log[j].kind # "hit"

\* a lookup exactly 30 minutes after the store went to the catalog
C1_Witness ==
    \E i \in LogIdx, j \in LogIdx :
        /\ StoredFor(i, j)
        /\ log[j].at = log[i].at + TTL
        /\ log[j].kind = "ok"

\* C2 as claimed: whatever the lookups, a request for an identifier is followed
\* by no other request for it within the 30 minute window.
C2_OneRequestPerWindow ==
    \A i \in LogIdx, j \in LogIdx :
        ( /\ i < j
          /\ log[i].key = log[j].key
          /\ log[i].kind # "hit"
          /\ log[j].at <= log[i].at + TTL ) => log[j].kind = "hit"

\* C2 amended: the window [t, t + 30 min) that a successful fetch at t opens
\* holds exactly one request for that identifier, the fetch itself; every other
\* lookup of it in the window is answered from the cache.
C2_OneRequestAfterStore ==
    \A i \in LogIdx :
        log[i].kind = "ok" =>
            Cardinality({j \in i..Len(log) :
                            /\ log[j].key = log[i].key
                            /\ log[j].kind # "hit"
                            /\ log[j].at < log[i].at + TTL}) = 1

\* a second lookup inside the window was answered from the cache
C2_Witness ==
    \E i \in LogIdx, j \in LogIdx :
        /\ i < j
        /\ log[i].key = log[j].key
        /\ log[i].kind = "ok"
        /\ log[j].kind = "hit"
        /\ log[j].at > log[i].at

\* the step is a call of fetch_product_info that returned Err
FailedLookupStep ==
    /\ Len(log') = Len(log) + 1
    /\ log'[Len(log')].kind = "err"

\* C3: a lookup that fails leaves the cache map exactly as it was.
C3_FailureKeepsCache == [][FailedLookupStep => cached_items' = cached_items]_vars

\* a refetch of a stale entry failed, and the entry is still there with its
\* old expiry
C3_Witness ==
    \E i \in LogIdx, j \in LogIdx :
        /\ StoredFor(i, j)
        /\ log[j].kind = "err"
        /\ log[j].key \in DOMAIN cached_items
        /\ cached_items[log[j].key].expires_at = log[i].at + TTL
        /\ cached_items[log[j].key].expires_at <= log[j].at

\* no two lines of the cart carry the same identifier
OneLinePerEan(c) ==
    \A i \in 1..Len(c), j \in 1..Len(c) : c[i].ean = c[j].ean => i = j

\* the step is an add that went through: only it clears the pending product
GuiAddStep == frontend = "gui" /\ product.some /\ ~product'.some

HasLine(c, ean) == \E i \in 1..Len(c) : c[i].ean = ean

\* C4: in the GUI, adding a product whose identifier has a line adds the added
\* quantity to that line and creates no second line, and the cart never holds
\* two lines of one identifier.
C4_MergeIntoLine ==
    [][GuiAddStep =>
          /\ HasLine(cart, product.p.ean) =>
                /\ Len(cart') = Len(cart)
                /\ \A i \in 1..Len(cart) :
                      cart'[i] = IF cart[i].ean = product.p.ean
                                 THEN [cart[i] EXCEPT
                                         !.quantity = @ + product.p.quantity]
                                 ELSE cart[i]
          /\ OneLinePerEan(cart')]_vars

\* add(A, 3) and add(A, 2) in either order: one line, quantity 5
C4_Witness ==
    /\ frontend = "gui"
    /\ Len(cart) = 1
    /\ cart[1].quantity = 5
    /\ Len(log) = 2

\* C5: in the GUI, no step taken while the pending quantity is 0, the click on
\* add among them, changes the cart.
C5_ZeroAddKeepsCart ==
    [][(frontend = "gui" /\ product.some /\ product.p.quantity = 0)
          => cart' = cart]_vars

\* the state a click on add with quantity 0 starts from and ends in: a pending
\* product with quantity 0 whose identifier already has a line
C5_Witness ==
    /\ frontend = "gui" /\ status = "running"
    /\ product.some
    /\ product.p.quantity = 0
    /\ HasLine(cart, product.p.ean)

\* C6: the command-line cart holds at most one line per identifier.
C6_CliOneLinePerEan == frontend = "cli" => OneLinePerEan(cart)

\* ---------------------------------------------- claims on the catalog's answer
\* the response the specification calls valid: an object with a numeric gtin,
\* title.headline, price.price and an images list, empty or of entries with a src
ValidAnswer(resp) ==
    /\ resp.transport_ok
    /\ resp.body.top = "object"
    /\ resp.body.gtin_t = "number"
    /\ resp.body.title_t = "object" /\ resp.body.headline_t = "string"
    /\ resp.body.price_t = "object" /\ resp.body.price_price_t = "string"
    /\ resp.body.images_t = "array"
    /\ \A i \in 1..Len(resp.body.images) : resp.body.images[i].has_src

\* the step is a lookup that sent a request, which the probe answered
RequestStep ==
    /\ Len(log') = Len(log) + 1
    /\ log'[Len(log')].kind # "hit"

LastKey == log'[Len(log')].key
LastKind == log'[Len(log')].kind

\* C7: a valid answer whose images list is empty gives a record without an
\* image, returned and cached; the lookup does not abort.
C7_EmptyImagesAccepted ==
    [][(RequestStep /\ ValidAnswer(probe.resp) /\ probe.resp.body.images = <<>>)
          => /\ LastKind = "ok"
             /\ LastKey \in DOMAIN cached_items'
             /\ ~cached_items'[LastKey].product.image]_vars

\* what C8 requires of a payload
ShapeOk(resp) ==
    /\ resp.transport_ok
    /\ resp.body.top = "object"
    /\ ~IsEmptyMap(resp.body)
    /\ resp.body.gtin_t = "number"
    /\ resp.body.title_t = "object" /\ resp.body.headline_t = "string"
    /\ resp.body.price_t = "object" /\ resp.body.price_price_t = "string"

\* C8: a lookup returns a record and fills the cache only for a non-empty
\* object with a numeric identifier, title.headline and price.price; any other
\* payload makes it return an error, with no record and the cache as it was.
C8_ShapeValidation ==
    [][RequestStep =>
          /\ LastKind = "ok" => ShapeOk(probe.resp)
          /\ ~ShapeOk(probe.resp) =>
                /\ LastKind = "err"
                /\ cached_items' = cached_items
                /\ product' = product
                /\ cart' = cart]_vars

\* a string-typed identifier was refused
C8_Witness ==
    /\ probe.resp.transport_ok
    /\ probe.resp.body.gtin_t = "string"
    /\ probe.resp.body.headline_t = "string"
    /\ Len(log) > probe.base
    /\ log[Len(log)].kind = "err"

\* C9: a valid answer whose price is no number does not fail the lookup: it
\* succeeds with a unit price of 0 and is cached.
C9_PriceFallback ==
    [][(RequestStep /\ ValidAnswer(probe.resp)
          /\ ~IsDecimal(probe.resp.body.price_price))
          => /\ LastKind = "ok"
             /\ LastKey \in DOMAIN cached_items'
             /\ cached_items'[LastKey].product.price = 0]_vars

\* trim and lower-case
Normalize(s) == ToLowercase(Trim(s))

\* C10: identifiers that differ only in surrounding whitespace or letter case
\* share a cache key: the second lookup within the window hits the entry the
\* first one wrote.
C10_CanonicalKeys ==
    \A i \in LogIdx, j \in LogIdx :
        ( /\ i < j
          /\ Normalize(log[i].key) = Normalize(log[j].key)
          /\ log[i].kind = "ok"
          /\ log[j].at < log[i].at + TTL ) => log[j].kind = "hit"

\* ------------------------------------------------ claims on the cart's lines
\* C11: in the GUI, when the added product's identifier already has a line,
\* nothing but that line's quantity changes: its name, unit price and the rest
\* of its record stay as first added, whatever the record just looked up
\* carries, and every other line is unchanged.
C11_FirstSeenPriceWins ==
    [][(GuiAddStep /\ HasLine(cart, product.p.ean)) =>
          /\ Len(cart') = Len(cart)
          /\ \A i \in 1..Len(cart) :
                IF cart[i].ean = product.p.ean
                THEN [cart'[i] EXCEPT !.quantity = cart[i].quantity] = cart[i]
                ELSE cart'[i] = cart[i]]_vars

\* the one lookup of the run fetched identifier 7 with another name and a
\* price of 0, and was merged into the line of 7, which still shows 2.99
C11_Witness ==
    /\ frontend = "gui"
    /\ probe.resp.body = GoodPayload(7, Name2, PNa, <<Img(DeadSrc)>>)
    /\ Len(log) = probe.base + 1
    /\ log[Len(log)].kind = "ok"
    /\ Len(cart) = 2
    /\ cart[1].ean = <<"7">> /\ cart[1].name = Name /\ cart[1].price = 299
    /\ cart[1].quantity # 2
    /\ cart[2] = WarmCart("gui")[2]

\* the step is a command-line iteration whose lookup returned a product and
\* whose quantity line parsed
CliAddStep ==
    /\ frontend = "cli"
    /\ Len(log') = Len(log) + 1
    /\ LastKind \in {"hit", "ok"}
    /\ status' = "running"

\* C12: no step of either front-end removes a line or moves an identifier to
\* another position; a step adds at most one line, at the end: in the GUI the
\* pending product when its identifier has no line yet, on the command line
\* the product just looked up.  The lines therefore stand in the order in
\* which they were first added.
C12_InsertionOrder ==
    [][/\ Len(cart) <= Len(cart') /\ Len(cart') <= Len(cart) + 1
       /\ \A i \in 1..Len(cart) : cart'[i].ean = cart[i].ean
       /\ (GuiAddStep /\ ~HasLine(cart, product.p.ean))
             => cart' = Append(cart, product.p)
       /\ CliAddStep
             => /\ Len(cart') = Len(cart) + 1
                /\ cart'[Len(cart')].ean = cached_items'[LastKey].product.ean]_vars

\* the GUI started with the line of 7 alone; 12 was looked up and added, and
\* stands behind it
C12_Witness ==
    /\ frontend = "gui"
    /\ probe.base = 1
    /\ Len(log) > probe.base
    /\ Len(cart) = 2
    /\ cart[1].ean = <<"7">>
    /\ cart[2].ean = <<"1", "2">>

\* the step is a call of fetch_product_info
LookupStep == Len(log') = Len(log) + 1

\* C13: a line of the cart keeps the name and the unit price it was added
\* with through every step, and a lookup, whether it is served from the cache,
\* fails, or fetches and overwrites the entry of a line's identifier, leaves
\* every line that was in the cart as it was.
C13_LinesAreSnapshots ==
    [][/\ \A i \in 1..Len(cart) :
             /\ i <= Len(cart')
             /\ cart'[i].name = cart[i].name
             /\ cart'[i].price = cart[i].price
       /\ LookupStep => SubSeq(cart', 1, Len(cart)) = cart]_vars

\* the entry of "7" went stale and was overwritten by a refetch that carries
\* another name and a price of 0; the line of 7 is as it was added
C13_Witness ==
    /\ <<"7">> \in DOMAIN cached_items
    /\ cached_items[<<"7">>].expires_at > TTL
    /\ cached_items[<<"7">>].product.name = Name2
    /\ cached_items[<<"7">>].product.price = 0
    /\ cart # <<>>
    /\ cart[1] = WarmCart(frontend)[1]

\* C14: in every reachable state of either front-end every line of the cart
\* has a quantity of 0 or more.
C14_QuantityNonNegative == \A i \in 1..Len(cart) : cart[i].quantity >= 0

\* ------------------------------------------------------ claims on the totals
\* the sum over the lines of unit price times quantity
RECURSIVE SumLines(_)
SumLines(c) ==
    IF c = <<>> THEN 0
    ELSE Head(c).price * Head(c).quantity + SumLines(Tail(c))

\* the lines (2.99, 2) and (1.50, 1)
ExampleLines(c) ==
    /\ Len(c) = 2
    /\ c[1].price = 299 /\ c[1].quantity = 2
    /\ c[2].price = 150 /\ c[2].quantity = 1

\* C15: the total that is shown (by every frame of the GUI, by the command
\* line once its loop is left) is the sum over all lines of unit price times
\* quantity, and the second-currency figure is that total times the exchange
\* rate; for the lines (2.99, 2) and (1.50, 1) the total is 7.48.
C15_Totals ==
    (frontend = "gui" \/ status = "done") =>
        /\ total_price = SumLines(cart)
        /\ total_pln = SumLines(cart) * euro_exchange_rate
        /\ ExampleLines(cart) => total_price = 748

\* the GUI shows 7.48 for the lines (2.99, 2) and (1.50, 1), and 7.48 times
\* the rate of 4.34 that the operator has set
C15_Witness ==
    /\ frontend = "gui"
    /\ ExampleLines(cart)
    /\ total_price = 748
    /\ euro_exchange_rate = 434
    /\ total_pln = 324632

\* ------------------------------------------------ claims on failed lookups
\* C16: a lookup that returns an error leaves the cart as it was and the
\* front-end running, ready for the next lookup.
C16_FailureNotFatal ==
    [][FailedLookupStep =>
          /\ cart' = cart
          /\ status = "running" /\ status' = "running"]_vars

\* a lookup failed, the next one succeeded, and its product is in the cart
C16_Witness ==
    /\ Len(log) = 2
    /\ log[1].kind = "err"
    /\ log[2].kind = "ok"
    /\ status = "running"
    /\ Len(cart) = 1
    /\ cart[1].ean = cached_items[log[2].key].product.ean

\* ------------------------------------------------- claims on the cache map
\* C17: no step removes a key from the cache.  While an entry is fresh
\* (expires_at > now) no step changes it, and a lookup of its key is served
\* from it: the GUI's pending product, or the line the command line pushes,
\* is the stored record.  An entry changes only in a lookup of its own key
\* that finds it stale and fetches successfully.
C17_FreshEntryStable ==
    [][\A k \in DOMAIN cached_items :
          /\ k \in DOMAIN cached_items'
          /\ Fresh(cached_items[k], now) => cached_items'[k] = cached_items[k]
          /\ cached_items'[k] # cached_items[k]
                => /\ LookupStep /\ LastKey = k /\ LastKind = "ok"
                   /\ ~Fresh(cached_items[k], now)
          /\ (LookupStep /\ LastKey = k /\ Fresh(cached_items[k], now))
                => /\ LastKind = "hit"
                   /\ frontend = "gui"
                         => product' = Some(cached_items[k].product)
                   /\ CliAddStep
                         => [cart'[Len(cart')] EXCEPT !.quantity = 0]
                               = cached_items[k].product]_vars

\* the entry of "7" was served while fresh, then refetched once stale and
\* replaced by another record; the entry of "a" is as it was stored
C17_Witness ==
    /\ probe.base = 2
    /\ Len(log) = probe.base + 2
    /\ log[3].key = <<"7">> /\ log[3].kind = "hit"
    /\ log[4].key = <<"7">> /\ log[4].kind = "ok"
    /\ cached_items[<<"7">>].product # WarmFetch(frontend).product
    /\ cached_items[<<"7">>].expires_at = log[4].at + TTL
    /\ cached_items[<<"a">>] = WarmSecond(frontend).cache[<<"a">>]

\* C18: every entry of the cache holds, under its key, a record whose
\* identifier is that key.
C18_KeyIsIdentifier ==
    \A k \in DOMAIN cached_items : cached_items[k].product.ean = k

\* C19: in every reachable state every product held in the cache has a
\* quantity of 0, whatever quantities were entered or added for it.
C19_CachedQuantityZero ==
    \A k \in DOMAIN cached_items : cached_items[k].product.quantity = 0

\* 3 were added of a product, it was then served from the cache and its
\* pending quantity dragged to 2: the cached product still has quantity 0
C19_Witness ==
    /\ frontend = "gui"
    /\ Len(log) = 2
    /\ log[2].kind = "hit"
    /\ product.some /\ product.p.quantity = 2
    /\ Len(cart) = 1 /\ cart[1].quantity = 3
    /\ cart[1].ean = product.p.ean
    /\ cached_items[log[2].key].product.ean = product.p.ean
    /\ cached_items[log[2].key].product.quantity = 0

\* ------------------------------------------- claims on the pending product
\* C20: in the GUI a product is pending only as the result of the most recent
\* lookup: that lookup returned a product, and the pending product is the one
\* it returned, with the quantity set since.
C20_PendingIsLastLookup ==
    (frontend = "gui" /\ product.some) =>
        /\ log # <<>>
        /\ log[Len(log)].kind \in {"hit", "ok"}
        /\ [product.p EXCEPT !.quantity = 0]
              = cached_items[log[Len(log)].key].product

====
